---- MODULE Spec2Model ----
(***************************************************************************)
(* Model of pitft_touch_cal.py (Python 2): the PiTFT touchscreen           *)
(* calibration script.  The script parses its arguments, checks for root,  *)
(* determines the screen rotation (argument or modprobe configuration),    *)
(* previews the current and the new calibration, asks for confirmation     *)
(* and overwrites /etc/pointercal and the X.Org calibration file.          *)
(*                                                                         *)
(* Representation.                                                         *)
(*   - A Python str that the code inspects character by character (a      *)
(*     modprobe line, a rotation value) is a sequence of one-character     *)
(*     strings.                                                            *)
(*   - A text blob (file content, table value) is the sequence of its      *)
(*     lines, i.e. the Python value "\n".join(lines); the empty text is    *)
(*     <<"">>.                                                             *)
(*   - A value that may be None is a sequence of length 0 (None) or 1.     *)
(*   - A path is the sequence of its components below "/".                 *)
(***************************************************************************)
EXTENDS Integers, Sequences, FiniteSets, TLC

VARIABLES pc, argv, euid, fs, rotation, new_pointercal, new_xorgcal,
          confirm, idx, status, exit_status, traceback, stdout, calls, resp

vars == <<pc, argv, euid, fs, rotation, new_pointercal, new_xorgcal,
          confirm, idx, status, exit_status, traceback, stdout, calls, resp>>

None == <<>>
Some(v) == <<v>>

-----------------------------------------------------------------------------
(* Bounds of the model.                                                    *)

\* Largest number of lines the modprobe query returns.
MaxLines == 2
\* Largest number of helper calls in the file-helper specification.
MaxOps == 2

-----------------------------------------------------------------------------
(* Calibration files and tables.                                           *)

POINTERCAL_FILE == <<"etc", "pointercal">>
XORGCAL_FILE == <<"etc", "X11", "xorg.conf.d", "99-calibration.conf">>

POINTERCAL ==
    (<<"0">> :> <<"4315 -49 -889068 18 5873 -1043172 6553636">>) @@
    (<<"9", "0">> :> <<"-30 -5902 22077792 4360 -105 -1038814 65536">>) @@
    (<<"1", "8", "0">> :> <<"-4228 73 16353030 -60 -5888 22004262 65536">>) @@
    (<<"2", "7", "0">> :> <<"-69 5859 -829540 -4306 3 16564590 6553636">>)

XORGCAL ==
    (<<"0">> :> <<"",
        "Section \"InputClass\"",
        "\tIdentifier      \"calibration\"",
        "\tMatchProduct    \"stmpe-ts\"",
        "\tOption  \"Calibration\"   \"252 3861 180 3745\"",
        "\tOption  \"SwapAxes\"      \"0\"",
        "EndSection",
        "">>) @@
    (<<"9", "0">> :> <<"",
        "Section \"InputClass\"",
        "\tIdentifier      \"calibration\"",
        "\tMatchProduct    \"stmpe-ts\"",
        "\tOption  \"Calibration\"   \"3807 174 244 3872\"",
        "\tOption  \"SwapAxes\"      \"1\"",
        "EndSection",
        "">>) @@
    (<<"1", "8", "0">> :> <<"",
        "Section \"InputClass\"",
        "\tIdentifier      \"calibration\"",
        "\tMatchProduct    \"stmpe-ts\"",
        "\tOption  \"Calibration\"   \"3868 264 3789 237\"",
        "\tOption \"SwapAxes\"      \"0\"",
        "EndSection",
        "">>) @@
    (<<"2", "7", "0">> :> <<"",
        "Section \"InputClass\"",
        "\tIdentifier      \"calibration\"",
        "\tMatchProduct    \"stmpe-ts\"",
        "\tOption  \"Calibration\"   \"287 3739 3817 207\"",
        "\tOption  \"SwapAxes\"      \"1\"",
        "EndSection",
        "">>)

\* allowed_rotations = POINTERCAL.keys()
allowed_rotations == DOMAIN POINTERCAL

-----------------------------------------------------------------------------
(* str.strip() on a text blob.  The lines of the blobs handled here carry  *)
(* no leading or trailing blanks on their first and last non-blank line,   *)
(* so stripping removes the blank lines at both ends.                      *)

EmptyText == <<"">>

IsBlank(line) == line \in {"", " ", "\t"}

strip(text) ==
    LET keep == {k \in 1..Len(text) : ~IsBlank(text[k])}
    IN  IF keep = {} THEN EmptyText
        ELSE LET lo == CHOOSE k \in keep : \A j \in keep : k <= j
                 hi == CHOOSE k \in keep : \A j \in keep : j <= k
             IN  SubSeq(text, lo, hi)

-----------------------------------------------------------------------------
(* Regular expressions of determine_rotation, on character sequences.      *)

UpperToLower ==
    [A |-> "a", B |-> "b", C |-> "c", D |-> "d", E |-> "e", F |-> "f",
     G |-> "g", H |-> "h", I |-> "i", J |-> "j", K |-> "k", L |-> "l",
     M |-> "m", N |-> "n", O |-> "o", P |-> "p", Q |-> "q", R |-> "r",
     S |-> "s", T |-> "t", U |-> "u", V |-> "v", W |-> "w", X |-> "x",
     Y |-> "y", Z |-> "z"]

\* re.IGNORECASE: letters compare by their lower-case form.
Lower(c) == IF c \in DOMAIN UpperToLower THEN UpperToLower[c] ELSE c

\* \d of a Python 2 str pattern.
IsDigit(c) == c \in {"0", "1", "2", "3", "4", "5", "6", "7", "8", "9"}

PRODUCT_PATTERN == <<"n", "a", "m", "e", "=", "a", "d", "a", "f", "r", "u", "i", "t">>
ROTATE_PATTERN == <<"r", "o", "t", "a", "t", "e", "=">>

\* The literal pattern pat (lower case) matches line at position i, ignoring case.
MatchAt(line, i, pat) ==
    /\ i + Len(pat) - 1 <= Len(line)
    /\ \A k \in 1..Len(pat) : Lower(line[i + k - 1]) = pat[k]

\* re.search('name=adafruit', line, re.IGNORECASE)
SearchProduct(line) == \E i \in 1..Len(line) : MatchAt(line, i, PRODUCT_PATTERN)

\* Positions where 'rotate=(\d+)' matches: the key followed by at least one digit.
RotateMatches(line) ==
    {i \in 1..Len(line) :
        /\ MatchAt(line, i, ROTATE_PATTERN)
        /\ i + Len(ROTATE_PATTERN) <= Len(line)
        /\ IsDigit(line[i + Len(ROTATE_PATTERN)])}

\* The greedy \d+ starting at position j: the longest run of digits.
DigitRun(line, j) ==
    LET ends == {e \in j..Len(line) : \A m \in j..e : IsDigit(line[m])}
        last == CHOOSE e \in ends : \A x \in ends : x <= e
    IN  SubSeq(line, j, last)

\* re.search('rotate=(\d+)', line, re.IGNORECASE): None, or group(1) of the
\* leftmost match.
SearchRotate(line) ==
    LET ms == RotateMatches(line)
    IN  IF ms = {} THEN None
        ELSE LET i == CHOOSE x \in ms : \A y \in ms : x <= y
             IN  Some(DigitRun(line, i + Len(ROTATE_PATTERN)))

\* Faulty variant: the first line with the product token decides alone.
RECURSIVE ScanFirstProductLine(_, _)
ScanFirstProductLine(lines, k) ==
    IF k > Len(lines) THEN None
    ELSE IF SearchProduct(lines[k]) THEN SearchRotate(lines[k])
    ELSE ScanFirstProductLine(lines, k + 1)

\* The loop over resp.splitlines(), from line k on: the first line with
\* the product token and a rotate=<digits> match returns.
RECURSIVE ScanLines(_, _)
ScanLines(lines, k) ==
    IF k > Len(lines) THEN None
    ELSE IF SearchProduct(lines[k]) /\ SearchRotate(lines[k]) # None
         THEN SearchRotate(lines[k])
    ELSE ScanLines(lines, k + 1)

\* out is the outcome of "modprobe -c | grep 'options fbtft_device'": the
\* exit status of the pipeline and the lines it printed.  check_output
\* raises CalledProcessError on a non-zero status.
determine_rotation(out) ==
    IF out.returncode # 0 THEN None
    ELSE ScanLines(out.output, 1)

-----------------------------------------------------------------------------
(* The filesystem below "/": each node is absent, a directory or a regular *)
(* file with its text.  The program runs as root when it touches the       *)
(* filesystem, so permission bits deny nothing; what fails is a path whose *)
(* node has the wrong kind, or a fault of the environment on this call     *)
(* (read-only filesystem, full disk).                                      *)

dirname(p) == SubSeq(p, 1, Len(p) - 1)

Prefixes(p) == {SubSeq(p, 1, k) : k \in 1..Len(p)}

Nodes == Prefixes(POINTERCAL_FILE) \cup Prefixes(XORGCAL_FILE)

Targets == {POINTERCAL_FILE, XORGCAL_FILE}

Absent == [kind |-> "absent", data |-> EmptyText]
Dir == [kind |-> "dir", data |-> EmptyText]
File(text) == [kind |-> "file", data |-> text]

NodeAt(f, p) == IF p = <<>> THEN Dir ELSE f[p]

\* os.path.exists
exists(f, p) == NodeAt(f, p).kind # "absent"

\* Faults the environment can raise during one write_file call.
WriteFaults == {"none", "mkdir", "open", "write"}

\* os.mkdir: OSError unless the parent is a directory and the name is free.
mkdir(f, name, fault) ==
    IF \/ fault = "mkdir"
       \/ NodeAt(f, dirname(name)).kind # "dir"
       \/ NodeAt(f, name).kind # "absent"
    THEN [fs |-> f, raised |-> "OSError"]
    ELSE [fs |-> [f EXCEPT ![name] = Dir], raised |-> "none"]

\* os.makedirs: create the missing ancestors, then the leaf.
RECURSIVE makedirs(_, _, _)
makedirs(f, name, fault) ==
    LET head == dirname(name)
        pre == IF head # <<>> /\ ~exists(f, head)
               THEN makedirs(f, head, fault)
               ELSE [fs |-> f, raised |-> "none"]
    IN  IF pre.raised # "none" THEN pre ELSE mkdir(pre.fs, name, fault)

\* open(filename, 'w'): IOError unless the parent is a directory and the
\* node is not a directory; the file is created or truncated.
open_w(f, filename, fault) ==
    IF \/ fault = "open"
       \/ NodeAt(f, dirname(filename)).kind # "dir"
       \/ NodeAt(f, filename).kind = "dir"
    THEN [fs |-> f, raised |-> "IOError"]
    ELSE [fs |-> [f EXCEPT ![filename] = File(EmptyText)], raised |-> "none"]

\* Faulty variant: writes data.strip() instead of data.
outfile_write_stripped(f, filename, data, fault) ==
    IF fault = "write"
    THEN [fs |-> f, raised |-> "IOError"]
    ELSE [fs |-> [f EXCEPT ![filename] = File(strip(data))], raised |-> "none"]

\* outfile.write(data) and the close at the end of the with block: the
\* data reaches the truncated file, or IOError leaves it empty.
outfile_write(f, filename, data, fault) ==
    IF fault = "write"
    THEN [fs |-> f, raised |-> "IOError"]
    ELSE [fs |-> [f EXCEPT ![filename] = File(data)], raised |-> "none"]

\* "except IOError, OSError:" is Python 2 for "except IOError as OSError":
\* it catches IOError alone and binds it to the name OSError.
WriteFileCatches(exc) == exc = "IOError"

\* The result of write_file when exc was raised with the filesystem at f.
WriteFileExcept(f, exc) ==
    IF WriteFileCatches(exc)
    THEN [fs |-> f, raised |-> "none", ret |-> Some(FALSE)]
    ELSE [fs |-> f, raised |-> exc, ret |-> None]

\* write_file(filename, data): the filesystem after the call, the exception
\* that escaped it ("none" when it returned) and the value returned.
write_file(f, filename, data, fault) ==
    LET directory == dirname(filename)
        made == IF ~exists(f, directory)
                THEN makedirs(f, directory, fault)
                ELSE [fs |-> f, raised |-> "none"]
    IN  IF made.raised # "none" THEN WriteFileExcept(made.fs, made.raised)
        ELSE LET opened == open_w(made.fs, filename, fault)
             IN  IF opened.raised # "none"
                 THEN WriteFileExcept(opened.fs, opened.raised)
                 ELSE LET written == outfile_write(opened.fs, filename, data, fault)
                      IN  IF written.raised # "none"
                          THEN WriteFileExcept(written.fs, written.raised)
                          ELSE [fs |-> written.fs, raised |-> "none",
                                ret |-> Some(TRUE)]

\* open(filename, 'r'): IOError unless the node is a regular file.
open_r(f, filename) ==
    IF NodeAt(f, filename).kind = "file" THEN "none" ELSE "IOError"

\* "except IOError:" of read_file.
ReadFileCatches(exc) == exc = "IOError"

\* read_file(filename): the exception that escaped ("none" when it
\* returned) and the value returned, the text or None.
read_file(f, filename) ==
    LET opened == open_r(f, filename)
    IN  IF opened = "none"
        THEN [raised |-> "none", ret |-> Some(NodeAt(f, filename).data)]
        ELSE IF ReadFileCatches(opened)
        THEN [raised |-> "none", ret |-> None]
        ELSE [raised |-> opened, ret |-> None]

-----------------------------------------------------------------------------
(* Inputs: what the files can hold before the run, the filesystems the     *)
(* run can start in, the command lines and the answers of the user.        *)

OldPointercal == <<"1 0 0 0 1 0 1", "">>
OldXorgcal == <<"", "Section \"InputClass\"", "EndSection", "", "# local">>

NodeValues == {Absent, Dir, File(OldPointercal), File(OldXorgcal)}

\* A node exists only below a directory.
WellFormed(f) ==
    \A p \in Nodes : f[p].kind # "absent" => NodeAt(f, dirname(p)).kind = "dir"

FsStates ==
    {f \in [Nodes -> NodeValues] :
        /\ WellFormed(f)
        /\ \A p \in Nodes \ Targets : f[p] # File(OldXorgcal)}

\* Values of -r/--rotation on the command line (None: not passed).
RotationArgs ==
    {None} \cup {Some(r) : r \in allowed_rotations}
           \cup {Some(<<"4", "5">>), Some(<<"9", "0", "0">>)}

Argvs == [rotation : RotationArgs, force : BOOLEAN]

\* Effective user ids: root and an ordinary user.
Euids == {0, 1000}

\* Lines typed at the prompt; None is end of input.
Responses == {"y", "Y", "yes", "YES", "", "no", "Yes", "yES", "n", "y "}
StdinOutcomes == {Some(r) : r \in Responses} \cup {None}

-----------------------------------------------------------------------------
(* Output of "modprobe -c | grep 'options fbtft_device'".                  *)

Sp == <<" ">>
OptionsPrefix == <<"o", "p", "t", "i", "o", "n", "s", " ", "f", "b", "t", "f", "t", "_", "d", "e", "v", "i", "c", "e">>
NameAdafruit28 == <<"n", "a", "m", "e", "=", "a", "d", "a", "f", "r", "u", "i", "t", "2", "8">>
NameAdafruitUpper == <<"N", "A", "M", "E", "=", "A", "d", "a", "f", "r", "u", "i", "t", "2", "2">>
NamePitft == <<"n", "a", "m", "e", "=", "p", "i", "t", "f", "t">>
Rotate90 == <<"r", "o", "t", "a", "t", "e", "=", "9", "0">>
RotateUpper270 == <<"R", "O", "T", "A", "T", "E", "=", "2", "7", "0">>
Rotate180 == <<"r", "o", "t", "a", "t", "e", "=", "1", "8", "0">>
Rotate0 == <<"r", "o", "t", "a", "t", "e", "=", "0">>
Rotate45 == <<"r", "o", "t", "a", "t", "e", "=", "4", "5">>
RotateBare == <<"r", "o", "t", "a", "t", "e", "=">>
Speed == <<"s", "p", "e", "e", "d", "=", "8">>

\* options fbtft_device name=adafruit28 rotate=90
LineAdafruit90 == OptionsPrefix \o Sp \o NameAdafruit28 \o Sp \o Rotate90
\* options fbtft_device NAME=Adafruit22 ROTATE=270 speed=8
LineUpper270 == OptionsPrefix \o Sp \o NameAdafruitUpper \o Sp \o RotateUpper270 \o Sp \o Speed
\* options fbtft_device name=adafruit28 speed=8       (no rotate key)
LineAdafruitNoRotate == OptionsPrefix \o Sp \o NameAdafruit28 \o Sp \o Speed
\* options fbtft_device name=pitft rotate=180         (another product)
LinePitft180 == OptionsPrefix \o Sp \o NamePitft \o Sp \o Rotate180
\* options fbtft_device name=adafruit28 rotate=45     (unsupported angle)
LineAdafruit45 == OptionsPrefix \o Sp \o NameAdafruit28 \o Sp \o Rotate45
\* options fbtft_device rotate=0 name=adafruit28      (rotate before name)
LineRotate0First == OptionsPrefix \o Sp \o Rotate0 \o Sp \o NameAdafruit28
\* options fbtft_device name=adafruit28 rotate= rotate=180  (key without digits)
LineBareThen180 == OptionsPrefix \o Sp \o NameAdafruit28 \o Sp \o RotateBare \o Sp \o Rotate180
\* options fbtft_device speed=8                       (neither token)
LineOther == OptionsPrefix \o Sp \o Speed

ModprobeLines ==
    {LineAdafruit90, LineUpper270, LineAdafruitNoRotate, LinePitft180,
     LineAdafruit45, LineRotate0First, LineBareThen180, LineOther}

SeqsUpTo(S, n) == UNION {[1..k -> S] : k \in 0..n}

\* grep exits 0 with the lines it selected, 1 with none, 2 on an error.
ModprobeOutcomes ==
    {[returncode |-> 0, output |-> o] : o \in SeqsUpTo(ModprobeLines, MaxLines) \ {<<>>}}
    \cup {[returncode |-> 1, output |-> <<>>]}
    \cup {[returncode |-> 2, output |-> o] : o \in SeqsUpTo(ModprobeLines, 1)}

NoResp == [returncode |-> 0, output |-> <<>>]

-----------------------------------------------------------------------------
(* The script.  pc is the position in the top-level code, stdout the       *)
(* messages printed so far and calls the calls made to the environment     *)
(* and to the file helpers, in order.                                      *)

Msg(m, file, text) == [msg |-> m, file |-> file, text |-> text]

\* made: the call found the directory of path missing and ran os.makedirs.
Call(name, path, data, fault, raised, ret, made) ==
    [call |-> name, path |-> path, data |-> data, fault |-> fault,
     raised |-> raised, ret |-> ret, made |-> made]

\* Exit status of parser.error().
ArgparseErrorStatus == 2
\* Exit status of the interpreter after an unhandled exception.
UnhandledExceptionStatus == 1

CalFiles == <<POINTERCAL_FILE, XORGCAL_FILE>>

Init ==
    /\ pc = "parse"
    /\ argv \in Argvs
    /\ euid \in Euids
    /\ fs \in FsStates
    /\ rotation = None
    /\ new_pointercal = None
    /\ new_xorgcal = None
    /\ confirm = None
    /\ idx = 1
    /\ status = 0
    /\ exit_status = None
    /\ traceback = "none"
    /\ stdout = <<>>
    /\ calls = <<>>
    /\ resp = NoResp

\* sys.exit(code)
Exit(code) ==
    /\ pc' = "exited"
    /\ exit_status' = Some(code)
    /\ traceback' = traceback

\* An exception nobody catches: traceback, exit status 1.
Crash(exc) ==
    /\ pc' = "exited"
    /\ exit_status' = Some(UnhandledExceptionStatus)
    /\ traceback' = exc

Goto(label) ==
    /\ pc' = label
    /\ exit_status' = exit_status
    /\ traceback' = traceback

\* Faulty variant: -r without choices.
ChoicesAcceptAll(a) == TRUE

\* choices=allowed_rotations of the -r/--rotation argument.
ChoicesAccept(a) == a.rotation = None \/ a.rotation[1] \in allowed_rotations

\* args = parser.parse_args()
ParseArgs ==
    /\ pc = "parse"
    /\ IF ChoicesAccept(argv) THEN Goto("check_root") ELSE Exit(ArgparseErrorStatus)
    /\ UNCHANGED <<argv, euid, fs, rotation, new_pointercal, new_xorgcal,
                   confirm, idx, status, stdout, calls, resp>>

\* Faulty variant: no privilege check.
IsRootAlways(e) == TRUE

\* os.geteuid() != 0
IsRoot(e) == e = 0

CheckRoot ==
    /\ pc = "check_root"
    /\ calls' = Append(calls, Call("geteuid", <<>>, EmptyText, "none", "none", Some(euid), FALSE))
    /\ IF IsRoot(euid)
       THEN /\ Goto("determine")
            /\ stdout' = stdout
       ELSE /\ Exit(1)
            /\ stdout' = Append(stdout, Msg("Must be run as root", <<>>, EmptyText))
    /\ UNCHANGED <<argv, euid, fs, rotation, new_pointercal, new_xorgcal,
                   confirm, idx, status, resp>>

\* Faulty variant: a missing rotation is not noticed.
NotDetectedNever(r) == FALSE

\* "if rotation is None" after determine_rotation()
NotDetected(r) == r = None

\* rotation = args.rotation; determine_rotation() when it is None.
DetermineRotation ==
    /\ pc = "determine"
    /\ \/ /\ argv.rotation # None
          /\ rotation' = argv.rotation
          /\ Goto("validate")
          /\ UNCHANGED <<stdout, calls>>
       \/ /\ argv.rotation = None
          /\ \E out \in ModprobeOutcomes :
                LET r == determine_rotation(out)
                IN  /\ rotation' = r
                    /\ calls' = Append(calls, Call("determine_rotation", <<>>,
                                                   EmptyText, "none", "none", r, FALSE))
                    /\ IF NotDetected(r)
                       THEN /\ Exit(1)
                            /\ stdout' = Append(stdout,
                                   Msg("Could not detect screen rotation", <<>>, EmptyText))
                       ELSE /\ Goto("validate")
                            /\ stdout' = stdout
    /\ UNCHANGED <<argv, euid, fs, new_pointercal, new_xorgcal,
                   confirm, idx, status, resp>>

\* Faulty variant: no validation of the rotation.
RotationAllowedAny(r) == TRUE

\* rotation not in allowed_rotations
RotationAllowed(r) == r \in allowed_rotations

ValidateRotation ==
    /\ pc = "validate"
    /\ IF RotationAllowed(rotation[1])
       THEN /\ Goto("preview_current")
            /\ stdout' = Append(stdout, Msg("USING ROTATION", <<>>, rotation[1]))
       ELSE /\ Exit(1)
            /\ stdout' = Append(stdout, Msg("Unsupported rotation value", <<>>, rotation[1]))
    /\ UNCHANGED <<argv, euid, fs, rotation, new_pointercal, new_xorgcal,
                   confirm, idx, status, calls, resp>>

\* One iteration of "for cal_file in [POINTERCAL_FILE, XORGCAL_FILE]".
PreviewCurrent ==
    /\ pc = "preview_current"
    /\ LET cal_file == CalFiles[idx]
           r == read_file(fs, cal_file)
       IN  /\ calls' = Append(calls, Call("read_file", cal_file, EmptyText,
                                          "none", r.raised, r.ret, FALSE))
           /\ IF r.raised # "none"
              THEN /\ Crash(r.raised)
                   /\ UNCHANGED <<stdout, idx>>
              ELSE /\ stdout' = Append(stdout,
                          IF r.ret = None
                          THEN Msg("Could not determine configuration", cal_file, EmptyText)
                          ELSE Msg("Current configuration", cal_file, strip(r.ret[1])))
                   /\ IF idx < Len(CalFiles)
                      THEN idx' = idx + 1 /\ Goto("preview_current")
                      ELSE idx' = 1 /\ Goto("lookup")
    /\ UNCHANGED <<argv, euid, fs, rotation, new_pointercal, new_xorgcal,
                   confirm, status, resp>>

\* Faulty variant: always the entry of rotation 0.
LookupRotation0(table, r) == IF r \in DOMAIN table THEN Some(table[<<"0">>]) ELSE None

\* table[rotation]; None stands for KeyError.
Lookup(table, r) == IF r \in DOMAIN table THEN Some(table[r]) ELSE None

\* new_pointercal = POINTERCAL[rotation]; new_xorgcal = XORGCAL[rotation]
LookupCalibration ==
    /\ pc = "lookup"
    /\ LET p == Lookup(POINTERCAL, rotation[1])
           x == Lookup(XORGCAL, rotation[1])
       IN  /\ calls' = Append(calls, Call("lookup", <<>>, rotation[1], "none",
                                          IF p = None \/ x = None THEN "KeyError" ELSE "none",
                                          None, FALSE))
           /\ IF p = None \/ x = None
              THEN /\ Crash("KeyError")
                   /\ UNCHANGED <<new_pointercal, new_xorgcal>>
              ELSE /\ new_pointercal' = p
                   /\ new_xorgcal' = x
                   /\ Goto("preview_new")
    /\ UNCHANGED <<argv, euid, fs, rotation, confirm, idx, status, stdout, resp>>

\* The pairs both loops over the new values run through.
NewPairs ==
    <<[cal |-> new_pointercal[1], filename |-> POINTERCAL_FILE],
      [cal |-> new_xorgcal[1], filename |-> XORGCAL_FILE]>>

\* Print new calibration values.
PreviewNew ==
    /\ pc = "preview_new"
    /\ stdout' = stdout \o
          <<Msg("New configuration", NewPairs[1].filename, strip(NewPairs[1].cal)),
            Msg("New configuration", NewPairs[2].filename, strip(NewPairs[2].cal))>>
    /\ Goto("confirm")
    /\ UNCHANGED <<argv, euid, fs, rotation, new_pointercal, new_xorgcal,
                   confirm, idx, status, calls, resp>>

\* Faulty variant: the answer is compared ignoring case.
ConfirmedIgnoringCase(c) == c \in {"y", "Y", "yes", "YES", "Yes", "yES"}

\* confirm in ['y', 'Y', 'yes', 'YES']
Confirmed(c) == c \in {"y", "Y", "yes", "YES"}

\* Confirm calibration change with user, unless --force.
ConfirmationGate ==
    /\ pc = "confirm"
    /\ \/ /\ argv.force
          /\ Goto("apply")
          /\ UNCHANGED <<confirm, stdout, calls>>
       \/ /\ ~argv.force
          /\ \E in \in StdinOutcomes :
                /\ calls' = Append(calls, Call("raw_input", <<>>, EmptyText, "none",
                                               IF in = None THEN "EOFError" ELSE "none", in,
                                               FALSE))
                /\ IF in = None
                   THEN /\ Crash("EOFError")
                        /\ UNCHANGED <<confirm, stdout>>
                   ELSE /\ confirm' = in
                        /\ IF Confirmed(in[1])
                           THEN /\ Goto("apply")
                                /\ stdout' = stdout
                           ELSE /\ Exit(0)
                                /\ stdout' = Append(stdout,
                                       Msg("Exiting without updating configuration",
                                           <<>>, EmptyText))
    /\ UNCHANGED <<argv, euid, fs, rotation, new_pointercal, new_xorgcal,
                   idx, status, resp>>

\* status = 0
ApplyStart ==
    /\ pc = "apply"
    /\ status' = 0
    /\ idx' = 1
    /\ Goto("apply_loop")
    /\ UNCHANGED <<argv, euid, fs, rotation, new_pointercal, new_xorgcal,
                   confirm, stdout, calls, resp>>

\* One iteration of the loop that changes the calibration.
ApplyWrite ==
    /\ pc = "apply_loop"
    /\ \E fault \in WriteFaults :
          LET cal == NewPairs[idx].cal
              filename == NewPairs[idx].filename
              w == write_file(fs, filename, cal, fault)
          IN  /\ fs' = w.fs
              /\ calls' = Append(calls, Call("write_file", filename, cal, fault,
                                             w.raised, w.ret,
                                             ~exists(fs, dirname(filename))))
              /\ IF w.raised # "none"
                 THEN /\ Crash(w.raised)
                      /\ UNCHANGED <<stdout, status, idx>>
                 ELSE /\ IF ~w.ret[1]
                         THEN /\ stdout' = Append(stdout, Msg("Failed to update", filename, EmptyText))
                              /\ status' = 1
                         ELSE /\ stdout' = Append(stdout, Msg("Updated", filename, EmptyText))
                              /\ status' = status
                      /\ IF idx < Len(NewPairs)
                         THEN idx' = idx + 1 /\ Goto("apply_loop")
                         ELSE idx' = idx /\ Goto("exit")
    /\ UNCHANGED <<argv, euid, rotation, new_pointercal, new_xorgcal, confirm, resp>>

\* sys.exit(status)
SysExit ==
    /\ pc = "exit"
    /\ Exit(status)
    /\ UNCHANGED <<argv, euid, fs, rotation, new_pointercal, new_xorgcal,
                   confirm, idx, status, stdout, calls, resp>>

Next ==
    \/ ParseArgs
    \/ CheckRoot
    \/ DetermineRotation
    \/ ValidateRotation
    \/ PreviewCurrent
    \/ LookupCalibration
    \/ PreviewNew
    \/ ConfirmationGate
    \/ ApplyStart
    \/ ApplyWrite
    \/ SysExit

Spec == Init /\ [][Next]_vars

-----------------------------------------------------------------------------
(* determine_rotation on its own: the query outcome is drawn from          *)
(* ModprobeOutcomes and kept in resp, the result lands in rotation.        *)

EmptyFs == [p \in Nodes |-> Absent]

InitResolver ==
    /\ pc = "resolver"
    /\ resp \in ModprobeOutcomes
    /\ argv = [rotation |-> None, force |-> FALSE]
    /\ euid = 0
    /\ fs = EmptyFs
    /\ rotation = None
    /\ new_pointercal = None
    /\ new_xorgcal = None
    /\ confirm = None
    /\ idx = 1
    /\ status = 0
    /\ exit_status = None
    /\ traceback = "none"
    /\ stdout = <<>>
    /\ calls = <<>>

Resolve ==
    /\ pc = "resolver"
    /\ rotation' = determine_rotation(resp)
    /\ pc' = "resolved"
    /\ UNCHANGED <<argv, euid, fs, new_pointercal, new_xorgcal, confirm, idx,
                   status, exit_status, traceback, stdout, calls, resp>>

NextResolver == Resolve

SpecResolver == InitResolver /\ [][NextResolver]_vars

-----------------------------------------------------------------------------
(* read_file and write_file on their own: up to MaxOps calls, in any       *)
(* order, on the two calibration paths, from any starting filesystem.      *)

HelperTexts == {POINTERCAL[<<"9", "0">>], XORGCAL[<<"9", "0">>]}

InitHelpers ==
    /\ pc = "helpers"
    /\ fs \in FsStates
    /\ argv = [rotation |-> None, force |-> FALSE]
    /\ euid = 0
    /\ rotation = None
    /\ new_pointercal = None
    /\ new_xorgcal = None
    /\ confirm = None
    /\ idx = 1
    /\ status = 0
    /\ exit_status = None
    /\ traceback = "none"
    /\ stdout = <<>>
    /\ calls = <<>>
    /\ resp = NoResp

HelperWrite ==
    /\ pc = "helpers"
    /\ Len(calls) < MaxOps
    /\ \E filename \in Targets, data \in HelperTexts, fault \in WriteFaults :
          LET w == write_file(fs, filename, data, fault)
          IN  /\ fs' = w.fs
              /\ calls' = Append(calls, Call("write_file", filename, data, fault,
                                             w.raised, w.ret,
                                             ~exists(fs, dirname(filename))))
              /\ IF w.raised # "none" THEN Crash(w.raised) ELSE Goto("helpers")
    /\ UNCHANGED <<argv, euid, rotation, new_pointercal, new_xorgcal, confirm,
                   idx, status, stdout, resp>>

HelperRead ==
    /\ pc = "helpers"
    /\ Len(calls) < MaxOps
    /\ \E filename \in Targets :
          LET r == read_file(fs, filename)
          IN  /\ calls' = Append(calls, Call("read_file", filename, EmptyText,
                                             "none", r.raised, r.ret, FALSE))
              /\ IF r.raised # "none" THEN Crash(r.raised) ELSE Goto("helpers")
    /\ UNCHANGED <<argv, euid, fs, rotation, new_pointercal, new_xorgcal,
                   confirm, idx, status, stdout, resp>>

NextHelpers == HelperWrite \/ HelperRead

SpecHelpers == InitHelpers /\ [][NextHelpers]_vars

-----------------------------------------------------------------------------
(* Properties.                                                             *)

Exited == pc = "exited"

CallsTo(name) == {i \in DOMAIN calls : calls[i].call = name}

\* The run has touched neither target file nor asked modprobe.
NoFileOrQueryCall ==
    /\ CallsTo("read_file") = {}
    /\ CallsTo("write_file") = {}
    /\ CallsTo("determine_rotation") = {}

\* The four rotations of the specification, written out.
FourRotations == {<<"0">>, <<"9", "0">>, <<"1", "8", "0">>, <<"2", "7", "0">>}

ExplicitInvalid == argv.rotation # None /\ argv.rotation[1] \notin FourRotations

\* C1 as stated: whatever the arguments, a run that is not root ends with
\* exit status 1, and no target file is read or written and modprobe is
\* not queried.
C1_NonRootAlwaysExits1 ==
    euid # 0 =>
        /\ NoFileOrQueryCall
        /\ Exited => exit_status = Some(1)

\* C1 amended: a run that is not root never gets past the privilege check,
\* reads and writes no target file and does not query modprobe; it ends
\* with exit status 1 when the rotation is absent or one of the four, and
\* with exit status 2, from the argument parser, when an explicit rotation
\* is not one of the four.
C1_NonRootStopsBeforeFiles ==
    euid # 0 =>
        /\ pc \in {"parse", "check_root", "exited"}
        /\ NoFileOrQueryCall
        /\ Exited => exit_status = Some(IF ExplicitInvalid THEN 2 ELSE 1)
        /\ Exited /\ ~ExplicitInvalid =>
              stdout = <<Msg("Must be run as root", <<>>, EmptyText)>>

C1_Witness ==
    /\ Exited
    /\ euid # 0
    /\ argv = [rotation |-> Some(<<"9", "0">>), force |-> TRUE]
    /\ exit_status = Some(1)
    /\ CallsTo("geteuid") # {}

\* C2 as stated: an explicit rotation outside "0", "90", "180", "270"
\* writes neither target file and ends with exit status 1.
C2_InvalidExplicitExits1 ==
    ExplicitInvalid =>
        /\ CallsTo("write_file") = {}
        /\ Exited => exit_status = Some(1)

\* C2 amended: an explicit rotation outside "0", "90", "180", "270" is
\* refused by the argument parser: the run ends at once with exit status
\* 2, before the privilege check, and writes neither target file.
C2_InvalidExplicitExits2 ==
    ExplicitInvalid =>
        /\ pc \in {"parse", "exited"}
        /\ calls = <<>>
        /\ Exited => exit_status = Some(2)

C2_Witness ==
    /\ Exited
    /\ euid = 0
    /\ argv.rotation = Some(<<"4", "5">>)
    /\ exit_status = Some(2)

WriteCall(i) == calls[i].call = "write_file"

\* A path no write can succeed on: a directory sits at the path, or a
\* regular file sits where one of its directories should be.
Obstructed(f, p) ==
    \/ NodeAt(f, p).kind = "dir"
    \/ \E q \in Prefixes(dirname(p)) : NodeAt(f, q).kind = "file"

\* C3: no failure escapes write_file: every call returns, a failed
\* directory creation, open or write gives False, the failure is reported
\* for that file and the run ends with exit status 1 without a traceback.
C3_WriteFailureNeverEscapes ==
    /\ traceback \notin {"OSError", "IOError"}
    /\ \A i \in CallsTo("write_file") :
          /\ calls[i].raised = "none"
          /\ calls[i].ret # Some(TRUE) =>
                /\ calls[i].ret = Some(FALSE)
                /\ \E k \in DOMAIN stdout :
                      stdout[k] = Msg("Failed to update", calls[i].path, EmptyText)
                /\ Exited => exit_status = Some(1)

\* C4: with an explicit rotation r of the four, --force, root and both
\* target paths writable, the run ends with exit status 0, /etc/pointercal
\* holds exactly POINTERCAL[r] and the X.Org file exactly XORGCAL[r],
\* whatever they held before.
C4_ForcedRunWritesLiterals ==
    ( /\ Exited
      /\ euid = 0
      /\ argv.force
      /\ argv.rotation # None
      /\ argv.rotation[1] \in FourRotations
      /\ \A p \in Targets : ~Obstructed(fs, p)
      /\ \A i \in CallsTo("write_file") : calls[i].fault = "none" )
    =>
    ( /\ exit_status = Some(0)
      /\ traceback = "none"
      /\ fs[POINTERCAL_FILE] = File(POINTERCAL[argv.rotation[1]])
      /\ fs[XORGCAL_FILE] = File(XORGCAL[argv.rotation[1]]) )

\* A forced run for rotation 90 that replaced an older /etc/pointercal and
\* created the X.Org file with its directories.
C4_Witness ==
    /\ Exited
    /\ argv = [rotation |-> Some(<<"9", "0">>), force |-> TRUE]
    /\ exit_status = Some(0)
    /\ \E i \in CallsTo("read_file") :
          calls[i].path = POINTERCAL_FILE /\ calls[i].ret = Some(OldPointercal)
    /\ \E i \in CallsTo("write_file") :
          calls[i].path = XORGCAL_FILE /\ calls[i].made
    /\ fs[POINTERCAL_FILE] = File(<<"-30 -5902 22077792 4360 -105 -1038814 65536">>)
    /\ fs[XORGCAL_FILE].data[1] = "" /\ fs[XORGCAL_FILE].data[2] = "Section \"InputClass\""

\* C5: without --force a target file is written only after the answer was
\* exactly y, Y, yes or YES; any other answer writes nothing and ends the
\* run with exit status 0; with --force the prompt is never issued.
C5_ConfirmationGate ==
    /\ ~argv.force /\ CallsTo("write_file") # {} =>
          /\ confirm # None
          /\ confirm[1] \in {"y", "Y", "yes", "YES"}
    /\ ~argv.force /\ confirm # None /\ confirm[1] \notin {"y", "Y", "yes", "YES"} =>
          /\ Exited
          /\ exit_status = Some(0)
          /\ CallsTo("write_file") = {}
    /\ argv.force => CallsTo("raw_input") = {} /\ confirm = None

C5_Witness ==
    /\ Exited
    /\ ~argv.force
    /\ confirm = Some("Yes")
    /\ exit_status = Some(0)
    /\ CallsTo("read_file") # {}
    /\ CallsTo("write_file") = {}

\* C6: with no explicit rotation, a resolver that yields no rotation ends
\* the run there with exit status 1: neither target file is written, and
\* neither the preview reads nor the prompt happen.
C6_NoRotationExits1 ==
    ( /\ argv.rotation = None
      /\ \E i \in CallsTo("determine_rotation") : calls[i].ret = None )
    =>
    ( /\ Exited
      /\ exit_status = Some(1)
      /\ CallsTo("read_file") = {}
      /\ CallsTo("raw_input") = {}
      /\ CallsTo("write_file") = {}
      /\ CallsTo("lookup") = {} )

C6_Witness ==
    /\ Exited
    /\ euid = 0
    /\ argv.rotation = None
    /\ rotation = None
    /\ CallsTo("determine_rotation") # {}
    /\ exit_status = Some(1)

\* C8: the apply step calls write_file for both files, /etc/pointercal
\* first and the X.Org file second, also when the first write failed; the
\* exit status is 1 exactly when a write failed and 0 exactly when both
\* succeeded; a file written successfully keeps its new content when the
\* other write fails.
C8_BothWritesAttempted ==
    Exited /\ CallsTo("write_file") # {} =>
        LET w == CallsTo("write_file")
            first == CHOOSE i \in w : \A j \in w : i <= j
            failed == {i \in w : calls[i].ret # Some(TRUE)}
        IN  /\ Cardinality(w) = 2
            /\ w = {first, first + 1}
            /\ calls[first].path = POINTERCAL_FILE
            /\ calls[first + 1].path = XORGCAL_FILE
            /\ exit_status = Some(IF failed = {} THEN 0 ELSE 1)
            /\ \A i \in w \ failed : fs[calls[i].path] = File(calls[i].data)

\* C9: from the preview on, and whenever a target file was read, a table
\* looked up or a file written, the rotation in use is one of the four;
\* a detected rotation outside the four ends the run with exit status 1
\* with no target file read or written and no table lookup.
C9_RotationValidated ==
    /\ ( \/ pc \in {"preview_current", "lookup", "preview_new", "confirm",
                    "apply", "apply_loop", "exit"}
         \/ CallsTo("read_file") # {}
         \/ CallsTo("lookup") # {}
         \/ CallsTo("write_file") # {} )
       => rotation # None /\ rotation[1] \in FourRotations
    /\ ( /\ argv.rotation = None
         /\ rotation # None
         /\ rotation[1] \notin FourRotations
         /\ pc # "validate" )
       => ( /\ Exited
            /\ exit_status = Some(1)
            /\ CallsTo("read_file") = {}
            /\ CallsTo("lookup") = {}
            /\ CallsTo("write_file") = {} )

C9_Witness ==
    /\ Exited
    /\ argv.rotation = None
    /\ rotation = Some(<<"4", "5">>)
    /\ exit_status = Some(1)
    /\ stdout = <<Msg("Unsupported rotation value", <<>>, <<"4", "5">>)>>

-----------------------------------------------------------------------------
(* Properties of determine_rotation (SpecResolver).  What each line of     *)
(* ModprobeLines says is written out by hand, independently of the         *)
(* regular expressions.                                                    *)

\* The lines that mention the product token name=adafruit, in any case.
MentionsProduct ==
    {LineAdafruit90, LineUpper270, LineAdafruitNoRotate, LineAdafruit45,
     LineRotate0First, LineBareThen180}

\* The rotate=<integer> value of each line; None when it has no such token.
RotateValue ==
    (LineAdafruit90 :> Some(<<"9", "0">>)) @@
    (LineUpper270 :> Some(<<"2", "7", "0">>)) @@
    (LineAdafruitNoRotate :> None) @@
    (LinePitft180 :> Some(<<"1", "8", "0">>)) @@
    (LineAdafruit45 :> Some(<<"4", "5">>)) @@
    (LineRotate0First :> Some(<<"0">>)) @@
    (LineBareThen180 :> Some(<<"1", "8", "0">>)) @@
    (LineOther :> None)

Least(S) == CHOOSE x \in S : \A y \in S : x <= y

\* C7 as stated: the first line that mentions the product token decides:
\* the result is that line's rotate value, and no rotation when that line
\* has no rotate token or no line mentions the product token.
C7_FirstProductLineDecides ==
    pc = "resolved" /\ resp.returncode = 0 =>
        LET lines == resp.output
            prod == {k \in DOMAIN lines : lines[k] \in MentionsProduct}
        IN  rotation = IF prod = {} THEN None ELSE RotateValue[lines[Least(prod)]]

\* C7 amended: the first line, in output order, that mentions the product
\* token and carries a rotate=<integer> token decides: the result is that
\* line's rotate value; a product line without a rotate token is skipped;
\* the result is no rotation when no line has both, or when the query
\* failed.  Both tokens are matched ignoring case.
C7_FirstProductLineWithRotateDecides ==
    pc = "resolved" =>
        LET lines == resp.output
            both == {k \in DOMAIN lines :
                        lines[k] \in MentionsProduct /\ RotateValue[lines[k]] # None}
        IN  rotation = IF resp.returncode # 0 \/ both = {} THEN None
                       ELSE RotateValue[lines[Least(both)]]

\* A product line without rotate, then a product line with rotate=90.
C7_Witness ==
    /\ pc = "resolved"
    /\ resp = [returncode |-> 0, output |-> <<LineAdafruitNoRotate, LineAdafruit90>>]
    /\ rotation = Some(<<"9", "0">>)

-----------------------------------------------------------------------------
(* Properties of the file helpers (SpecHelpers).                           *)

\* C10: a successful write_file creates every missing directory of the
\* path and the file with exactly the data, and a read_file of the path
\* right after it returns exactly the data; read_file never raises and
\* returns None exactly when the path holds no regular file.
C10_WriteThenReadRoundTrips ==
    \A i \in DOMAIN calls :
        /\ ( WriteCall(i) /\ calls[i].ret = Some(TRUE) /\ i = Len(calls) ) =>
              /\ \A d \in Prefixes(dirname(calls[i].path)) : fs[d] = Dir
              /\ fs[calls[i].path] = File(calls[i].data)
        /\ ( /\ WriteCall(i) /\ calls[i].ret = Some(TRUE)
             /\ i < Len(calls)
             /\ calls[i + 1].call = "read_file"
             /\ calls[i + 1].path = calls[i].path ) =>
              calls[i + 1].ret = Some(calls[i].data)
        /\ calls[i].call = "read_file" =>
              /\ calls[i].raised = "none"
              /\ i = Len(calls) =>
                    (calls[i].ret = None <=> fs[calls[i].path].kind # "file")
                    /\ traceback = "none"

\* The X.Org file written where no directory of its path existed, then
\* read back.
C10_Witness ==
    /\ Len(calls) = 2
    /\ calls[1].call = "write_file" /\ calls[1].path = XORGCAL_FILE
    /\ calls[1].made /\ calls[1].ret = Some(TRUE)
    /\ calls[1].data = XORGCAL[<<"9", "0">>]
    /\ calls[2].call = "read_file" /\ calls[2].path = XORGCAL_FILE
    /\ calls[2].ret = Some(XORGCAL[<<"9", "0">>])
    /\ fs[<<"etc", "X11">>] = Dir

====
